---- MODULE Spec2Model ----
(***************************************************************************)
(* Model of the signer package of Caesar-Trade: the SessionManager         *)
(* (session.go: Activate, Sign, Status, Destroy under one sync.RWMutex)    *)
(* called concurrently by several goroutines.                              *)
(*                                                                         *)
(* Every call is a sequence of steps of one goroutine: the call itself,    *)
(* the acquisition of sm.mu, the statements of the body in the order of    *)
(* the source, and the deferred release of sm.mu, which runs after the     *)
(* return values have been set.  ret[p] holds the values a call is         *)
(* returning while its deferred unlock is pending.  The arguments of a     *)
(* call are local to its goroutine and unread until its body runs, so they *)
(* are drawn when the call gets past the other writers.                    *)
(***************************************************************************)
EXTENDS Integers, Sequences, FiniteSets, TLC

(* ------------------------------ bounds -------------------------------- *)

\* number of goroutines calling into the manager
NumProcs == 2
\* number of distinct keys handed to Activate
NumKeys == 1
\* largest limit handed to Activate
MaxLimit == 2
\* largest order value handed to Sign
MaxValue == 2
\* the ttl handed to NewSessionManager, in clock ticks
TTL == 1
\* last instant of the clock
MaxTime == 3
\* longest maker_amount text of a SignOrder request
MaxAmountLen == 2
\* how far below zero value_used is followed
MaxDebt == 1

Procs == 1..NumProcs
Keys == 1..NumKeys
Limits == 0..MaxLimit
Values == 0..MaxValue

(* ----------------------------- constants ------------------------------ *)

\* a nil *memguard.Enclave
NoKey == 0
\* a nil *big.Int
NilInt == -1
\* no goroutine holds the write side of sm.mu
NoProc == 0

ErrNoActiveSession == "no active session"
ErrSessionExpired == "session expired"
ErrValueLimitExceeded == "cumulative value limit exceeded"
\* the error of memguard's Enclave.Open, returned by Sign as it is
ErrOpen == "enclave open failed"
NoErr == "nil"

\* the placeholder address Activate stores
StubAddress == "0x0000000000000000000000000000000000000000"

VARIABLES
  sm,        \* the SessionManager's fields: enclave, address, expiresAt, maxValueLimit, valueUsed
  mu,        \* sm.mu: [writer: the goroutine holding or acquiring Lock, readers: holders of RLock]
  now,       \* the wall clock read by time.Now()
  pc,        \* pc[p]: the statement goroutine p executes next
  arg,       \* arg[p]: maxValueLimit of a running Activate, orderValue of a running Sign
  keyArg,    \* keyArg[p]: keyBytes of a running Activate
  newTotal,  \* newTotal[p]: Sign's local newTotal
  buf,       \* buf[p]: Sign's LockedBuffer holds the plaintext key
  ret,       \* ret[p]: the values the call of p is returning
  hist,      \* history of the session: how it reached its state, the limit it was
             \* activated with, the sum of the order values signed in it, and
             \* whether its Activate replaced a live session that had spent something
  rpc        \* rpc[p]: the Handler method goroutine p runs, if it runs one, and
             \* the response that method is returning

vars == <<sm, mu, now, pc, arg, keyArg, newTotal, buf, ret, hist, rpc>>

(* ------------------------- decimal conversion ------------------------- *)

Digit == <<"0", "1", "2", "3", "4", "5", "6", "7", "8", "9">>

RECURSIVE DecimalNat(_)
DecimalNat(n) ==
  IF n < 10 THEN Digit[n + 1] ELSE DecimalNat(n \div 10) \o Digit[(n % 10) + 1]

\* (*big.Int).String: decimal text, with a sign for a negative number
String(x) == IF x < 0 THEN "-" \o DecimalNat(0 - x) ELSE DecimalNat(x)

(* --------------------------- return values ---------------------------- *)

NoRet ==
  [op |-> "none", err |-> NoErr, sig |-> FALSE, active |-> FALSE,
   ttlRemaining |-> 0, maxLimit |-> "", used |-> "", address |-> ""]

\* what Sign returns: (sig, nil) or (nil, err)
SignRet(err) == [NoRet EXCEPT !.op = "Sign", !.err = err, !.sig = (err = NoErr)]

\* what Status returns
StatusRet(active, ttlRemaining, maxLimit, used, address) ==
  [NoRet EXCEPT !.op = "Status", !.active = active, !.ttlRemaining = ttlRemaining,
                !.maxLimit = maxLimit, !.used = used, !.address = address]

\* the inactive shape of Status
InactiveRet == StatusRet(FALSE, 0, "0", "0", "")

ActivateRet == [NoRet EXCEPT !.op = "Activate"]

DestroyRet == [NoRet EXCEPT !.op = "Destroy"]

(* ------------------------ the manager's helpers ----------------------- *)

\* NewSessionManager: no enclave, the zero time, a nil limit, valueUsed = 0
NewSessionManager ==
  [enclave |-> NoKey, address |-> "", expiresAt |-> 0,
   maxValueLimit |-> NilInt, valueUsed |-> 0]

\* an expiry check that finds the session expired at the instant expiresAt
isExpiredAtInstant(s, t) == t >= s.expiresAt

\* an expiry check that never finds the session expired
isExpiredNever(s, t) == FALSE

\* isExpired: time.Now().After(sm.expiresAt)
isExpired(s, t) == t > s.expiresAt

\* a teardown that leaves the sealed key in place
destroyLockedKeepsEnclave(s) ==
  [s EXCEPT !.address = "", !.valueUsed = 0, !.maxValueLimit = NilInt]

\* a teardown that leaves the spend counter as it was
destroyLockedKeepsUsed(s) ==
  [s EXCEPT !.enclave = NoKey, !.address = "", !.maxValueLimit = NilInt]

\* destroyLocked: clears enclave, address, valueUsed and maxValueLimit
destroyLocked(s) ==
  [s EXCEPT !.enclave = NoKey, !.address = "", !.valueUsed = 0, !.maxValueLimit = NilInt]

\* an Activate that leaves the expiry of a session it replaces
ActivatedKeepsExpiry(s, k, l, t) ==
  [enclave |-> k, address |-> StubAddress,
   expiresAt |-> IF s.enclave # NoKey THEN s.expiresAt ELSE t + TTL,
   maxValueLimit |-> l, valueUsed |-> 0]

\* an Activate that does not reset the spend counter
ActivatedKeepsUsed(s, k, l, t) ==
  [enclave |-> k, address |-> StubAddress, expiresAt |-> t + TTL,
   maxValueLimit |-> l, valueUsed |-> s.valueUsed]

\* the fields Activate writes: the sealed key, the expiry, the limit, valueUsed = 0
\* and the placeholder address; nothing of the fields s it replaces is kept
Activated(s, k, l, t) ==
  [enclave |-> k, address |-> StubAddress, expiresAt |-> t + TTL,
   maxValueLimit |-> l, valueUsed |-> 0]

\* a total that leaves out what the session has already used
NewTotalForgetsUsed(used, v) == v

\* Sign's newTotal: new(big.Int).Add(sm.valueUsed, orderValue)
NewTotal(used, v) == used + v

\* a limit check that lets a total one unit above the limit through
OverLimitOffByOne(total, limit) == total > limit + 1

\* a limit check that rejects a total equal to the limit
OverLimitAtLimit(total, limit) == total >= limit

\* the limit check of Sign: newTotal.Cmp(sm.maxValueLimit) > 0
OverLimit(total, limit) == total > limit

\* a lock that does not keep a second writer out
CanLockAlways == TRUE

\* sm.mu.Lock can start: no other writer holds or is acquiring the lock
CanLock == mu.writer = NoProc

\* sm.mu.Lock returns: the readers that held the lock have left
CanEnter == mu.readers = {}

\* sm.mu.RLock returns: no writer holds or is acquiring the lock
CanRLock == mu.writer = NoProc

\* history: the last operation that wrote the session was a Destroy
Destroyed == hist.phase \in {"destroyed", "destroyed again"}

(* ---------------------------- the Handler ---------------------------- *)

\* the gRPC codes SignOrder and GetSessionStatus return
OK == "OK"
InvalidArgument == "InvalidArgument"
FailedPrecondition == "FailedPrecondition"
ResourceExhausted == "ResourceExhausted"
Internal == "Internal"

\* the characters of a maker_amount: a digit, the signs, and one that is neither
Chars == {"1", "-", "+", "x"}

\* the maker_amount texts: every text of at most MaxAmountLen characters
Amounts == UNION {[1..n -> Chars] : n \in 0..MaxAmountLen}

\* the SignOrder requests: one without an order, and an order for every text
Requests ==
  {[order |-> FALSE, makerAmount |-> <<>>]} \cup
  {[order |-> TRUE, makerAmount |-> a] : a \in Amounts}

\* a request that has not been drawn
NoRequest == [order |-> FALSE, makerAmount |-> <<>>]

\* the text as the string that %s prints
RECURSIVE Text(_)
Text(cs) == IF cs = <<>> THEN "" ELSE cs[1] \o Text(Tail(cs))

IsDigit(c) == \E d \in 1..10 : Digit[d] = c

DigitValue(c) == (CHOOSE d \in 1..10 : Digit[d] = c) - 1

\* the number a text of digits denotes
RECURSIVE DigitsValue(_)
DigitsValue(ds) ==
  IF ds = <<>> THEN 0
  ELSE DigitsValue(SubSeq(ds, 1, Len(ds) - 1)) * 10 + DigitValue(ds[Len(ds)])

\* a SetString that reads a text without digits as zero
SetStringAcceptsEmpty(text) ==
  LET signed == Len(text) > 0 /\ text[1] \in {"+", "-"}
      digits == IF signed THEN Tail(text) ELSE text
  IN  IF \E i \in 1..Len(digits) : ~IsDigit(digits[i])
      THEN [ok |-> FALSE, value |-> 0]
      ELSE [ok |-> TRUE,
            value |-> IF signed /\ text[1] = "-" THEN 0 - DigitsValue(digits)
                      ELSE DigitsValue(digits)]

\* (*big.Int).SetString(text, 10): an optional sign, then one digit or more and
\* nothing else; ok is false for every other text
SetString(text) ==
  LET signed == Len(text) > 0 /\ text[1] \in {"+", "-"}
      digits == IF signed THEN Tail(text) ELSE text
  IN  IF Len(digits) = 0 \/ \E i \in 1..Len(digits) : ~IsDigit(digits[i])
      THEN [ok |-> FALSE, value |-> 0]
      ELSE [ok |-> TRUE,
            value |-> IF text[1] = "-" THEN 0 - DigitsValue(digits) ELSE DigitsValue(digits)]

\* a mapping that reports an exceeded limit as a failed precondition
ErrorCodeLimitAsPrecondition(err) ==
  CASE err = ErrNoActiveSession -> FailedPrecondition
    [] err = ErrSessionExpired -> FailedPrecondition
    [] err = ErrValueLimitExceeded -> FailedPrecondition
    [] OTHER -> Internal

\* the code SignOrder returns for an error of Sign
ErrorCode(err) ==
  CASE err = ErrNoActiveSession -> FailedPrecondition
    [] err = ErrSessionExpired -> FailedPrecondition
    [] err = ErrValueLimitExceeded -> ResourceExhausted
    [] OTHER -> Internal

\* the message SignOrder returns for an error of Sign
ErrorMessage(err) ==
  CASE err = ErrNoActiveSession -> "no active session"
    [] err = ErrSessionExpired -> "session expired"
    [] err = ErrValueLimitExceeded -> "cumulative value limit exceeded"
    [] OTHER -> "signing failed: " \o err

\* no Handler method runs. req is the request of a SignOrder; cause and signer are
\* history: what made the method fail, and the address of the session whose key
\* signed
NoRpc ==
  [op |-> "none", req |-> NoRequest, cause |-> "none", signer |-> "", code |-> "none",
   msg |-> "", signature |-> FALSE, st |-> NoRet]

\* a status.Errorf(code, msg) returned by SignOrder
ErrorResponse(r, cause, code, msg) ==
  [r EXCEPT !.cause = cause, !.code = code, !.msg = msg]

\* the SignOrderResponse: the signature and, of what Status returned, the address
SignOrderResponse(r, st) ==
  [r EXCEPT !.code = OK, !.signature = TRUE, !.st = [NoRet EXCEPT !.address = st.address]]

\* the GetSessionStatusResponse: the five values of Status
GetSessionStatusResponse(r, st) == [r EXCEPT !.code = OK, !.st = st]

(* ------------------------------- Init --------------------------------- *)

Init ==
  /\ sm = NewSessionManager
  /\ mu = [writer |-> NoProc, readers |-> {}]
  /\ now = 0
  /\ pc = [p \in Procs |-> "idle"]
  /\ arg = [p \in Procs |-> 0]
  /\ keyArg = [p \in Procs |-> NoKey]
  /\ newTotal = [p \in Procs |-> 0]
  /\ buf = [p \in Procs |-> FALSE]
  /\ ret = [p \in Procs |-> NoRet]
  /\ hist = [phase |-> "new", limit |-> NilInt, signed |-> 0, replaced |-> FALSE]
  /\ rpc = [p \in Procs |-> NoRpc]

(* ------------------------------ locking ------------------------------- *)

\* sm.mu.Lock(), first half: become the writer, which keeps new readers out
Lock(p, from, to) ==
  /\ pc[p] = from
  /\ CanLock
  /\ mu' = [mu EXCEPT !.writer = p]
  /\ pc' = [pc EXCEPT ![p] = to]
  /\ UNCHANGED <<sm, now, newTotal, buf, ret, hist, rpc>>

\* sm.mu.Lock(), second half: wait until the readers have left
Enter(p, from, to) ==
  /\ pc[p] = from
  /\ CanEnter
  /\ pc' = [pc EXCEPT ![p] = to]
  /\ UNCHANGED <<sm, mu, now, arg, keyArg, newTotal, buf, ret, hist, rpc>>

\* the deferred sm.mu.Unlock(): the call returns ret[p] to its caller. When the
\* caller is SignOrder it maps an error of Sign to its response, and goes on to
\* call Status when Sign returned a signature
Unlock(p, from) ==
  /\ pc[p] = from
  /\ mu' = [mu EXCEPT !.writer = NoProc]
  /\ arg' = [arg EXCEPT ![p] = 0]
  /\ keyArg' = [keyArg EXCEPT ![p] = NoKey]
  /\ newTotal' = [newTotal EXCEPT ![p] = 0]
  /\ ret' = [ret EXCEPT ![p] = NoRet]
  /\ IF rpc[p].op # "SignOrder"
     THEN /\ pc' = [pc EXCEPT ![p] = "idle"]
          /\ UNCHANGED rpc
     ELSE IF ret[p].err # NoErr
     THEN /\ pc' = [pc EXCEPT ![p] = "SignOrder_ret"]
          /\ rpc' = [rpc EXCEPT ![p] = ErrorResponse(@, ret[p].err, ErrorCode(ret[p].err),
                                                     ErrorMessage(ret[p].err))]
     ELSE /\ pc' = [pc EXCEPT ![p] = "Status_rlock"]
          /\ rpc' = [rpc EXCEPT ![p] = [@ EXCEPT !.signature = TRUE, !.signer = sm.address]]
  /\ UNCHANGED <<sm, now, buf, hist>>

(* ------------------------------ Activate ------------------------------ *)

\* a goroutine calls Activate(keyBytes, maxValueLimit)
ActivateCall(p) ==
  /\ pc[p] = "idle"
  /\ pc' = [pc EXCEPT ![p] = "Activate_lock"]
  /\ UNCHANGED <<sm, mu, now, arg, keyArg, newTotal, buf, ret, hist, rpc>>

ActivateLock(p) ==
  /\ Lock(p, "Activate_lock", "Activate_enter")
  /\ \E k \in Keys, l \in Limits :
       /\ keyArg' = [keyArg EXCEPT ![p] = k]
       /\ arg' = [arg EXCEPT ![p] = l]

ActivateEnter(p) == Enter(p, "Activate_enter", "Activate_body")

\* the body of Activate: seal the key, set the expiry, reset the counters
ActivateBody(p) ==
  /\ pc[p] = "Activate_body"
  /\ sm' = Activated(sm, keyArg[p], arg[p], now)
  /\ ret' = [ret EXCEPT ![p] = ActivateRet]
  /\ hist' = [phase |-> "activated", limit |-> arg[p], signed |-> 0,
              replaced |-> (sm.enclave # NoKey /\ now < sm.expiresAt /\ sm.valueUsed > 0)]
  /\ pc' = [pc EXCEPT ![p] = "Activate_unlock"]
  /\ UNCHANGED <<mu, now, arg, keyArg, newTotal, buf, rpc>>

ActivateUnlock(p) == Unlock(p, "Activate_unlock")

(* -------------------------------- Sign -------------------------------- *)

\* a goroutine calls Sign(orderValue)
SignCall(p) ==
  /\ pc[p] = "idle"
  /\ pc' = [pc EXCEPT ![p] = "Sign_lock"]
  /\ UNCHANGED <<sm, mu, now, arg, keyArg, newTotal, buf, ret, hist, rpc>>

\* the order value is the one SignOrder parsed when SignOrder is the caller
SignLock(p) ==
  /\ Lock(p, "Sign_lock", "Sign_enter")
  /\ \E v \in (IF rpc[p].op = "SignOrder" THEN {arg[p]} ELSE Values) :
       arg' = [arg EXCEPT ![p] = v]
  /\ UNCHANGED keyArg

SignEnter(p) == Enter(p, "Sign_enter", "Sign_check")

\* a Sign that checks the limit before the expiry
SignCheckLimitFirst(p) ==
  /\ pc[p] = "Sign_check"
  /\ IF sm.enclave = NoKey
     THEN /\ ret' = [ret EXCEPT ![p] = SignRet(ErrNoActiveSession)]
          /\ pc' = [pc EXCEPT ![p] = "Sign_unlock"]
          /\ UNCHANGED <<sm, newTotal, hist>>
     ELSE IF OverLimit(NewTotal(sm.valueUsed, arg[p]), sm.maxValueLimit)
     THEN /\ ret' = [ret EXCEPT ![p] = SignRet(ErrValueLimitExceeded)]
          /\ pc' = [pc EXCEPT ![p] = "Sign_unlock"]
          /\ UNCHANGED <<sm, newTotal, hist>>
     ELSE IF isExpired(sm, now)
     THEN /\ sm' = destroyLocked(sm)
          /\ hist' = [hist EXCEPT !.phase = "expired", !.signed = 0, !.replaced = FALSE]
          /\ ret' = [ret EXCEPT ![p] = SignRet(ErrSessionExpired)]
          /\ pc' = [pc EXCEPT ![p] = "Sign_unlock"]
          /\ UNCHANGED newTotal
     ELSE /\ newTotal' = [newTotal EXCEPT ![p] = NewTotal(sm.valueUsed, arg[p])]
          /\ pc' = [pc EXCEPT ![p] = "Sign_open"]
          /\ UNCHANGED <<sm, ret, hist>>
  /\ UNCHANGED <<mu, now, arg, keyArg, buf, rpc>>

\* Sign up to the limit check: existence, expiry, limit
SignCheck(p) ==
  /\ pc[p] = "Sign_check"
  /\ IF sm.enclave = NoKey
     THEN /\ ret' = [ret EXCEPT ![p] = SignRet(ErrNoActiveSession)]
          /\ pc' = [pc EXCEPT ![p] = "Sign_unlock"]
          /\ UNCHANGED <<sm, newTotal, hist>>
     ELSE IF isExpired(sm, now)
     THEN /\ sm' = destroyLocked(sm)
          /\ hist' = [hist EXCEPT !.phase = "expired", !.signed = 0, !.replaced = FALSE]
          /\ ret' = [ret EXCEPT ![p] = SignRet(ErrSessionExpired)]
          /\ pc' = [pc EXCEPT ![p] = "Sign_unlock"]
          /\ UNCHANGED newTotal
     ELSE IF OverLimit(NewTotal(sm.valueUsed, arg[p]), sm.maxValueLimit)
     THEN /\ ret' = [ret EXCEPT ![p] = SignRet(ErrValueLimitExceeded)]
          /\ pc' = [pc EXCEPT ![p] = "Sign_unlock"]
          /\ UNCHANGED <<sm, newTotal, hist>>
     ELSE /\ newTotal' = [newTotal EXCEPT ![p] = NewTotal(sm.valueUsed, arg[p])]
          /\ pc' = [pc EXCEPT ![p] = "Sign_open"]
          /\ UNCHANGED <<sm, ret, hist>>
  /\ UNCHANGED <<mu, now, arg, keyArg, buf, rpc>>

\* a Sign that commits the spend before it knows that the key could be opened
SignOpenCommitsFirst(p) ==
  /\ pc[p] = "Sign_open"
  /\ sm' = [sm EXCEPT !.valueUsed = newTotal[p]]
  /\ \/ /\ buf' = [buf EXCEPT ![p] = TRUE]
        /\ pc' = [pc EXCEPT ![p] = "Sign_commit"]
        /\ UNCHANGED ret
     \/ /\ ret' = [ret EXCEPT ![p] = SignRet(ErrOpen)]
        /\ pc' = [pc EXCEPT ![p] = "Sign_unlock"]
        /\ UNCHANGED buf
  /\ UNCHANGED <<mu, now, arg, keyArg, newTotal, hist, rpc>>

\* sm.enclave.Open(): a LockedBuffer with the key, or an error that Sign returns
SignOpen(p) ==
  /\ pc[p] = "Sign_open"
  /\ \/ /\ buf' = [buf EXCEPT ![p] = TRUE]
        /\ pc' = [pc EXCEPT ![p] = "Sign_commit"]
        /\ UNCHANGED ret
     \/ /\ ret' = [ret EXCEPT ![p] = SignRet(ErrOpen)]
        /\ pc' = [pc EXCEPT ![p] = "Sign_unlock"]
        /\ UNCHANGED buf
  /\ UNCHANGED <<sm, mu, now, arg, keyArg, newTotal, hist, rpc>>

\* a Sign that returns without destroying the LockedBuffer
SignCommitLeaksBuffer(p) ==
  /\ pc[p] = "Sign_commit"
  /\ sm' = [sm EXCEPT !.valueUsed = newTotal[p]]
  /\ ret' = [ret EXCEPT ![p] = SignRet(NoErr)]
  /\ hist' = [hist EXCEPT !.phase = "signed", !.signed = @ + arg[p], !.replaced = FALSE]
  /\ pc' = [pc EXCEPT ![p] = "Sign_unlock"]
  /\ UNCHANGED <<mu, now, arg, keyArg, newTotal, buf, rpc>>

\* the placeholder signature, buf.Destroy() and the commit of valueUsed
SignCommit(p) ==
  /\ pc[p] = "Sign_commit"
  /\ buf' = [buf EXCEPT ![p] = FALSE]
  /\ sm' = [sm EXCEPT !.valueUsed = newTotal[p]]
  /\ ret' = [ret EXCEPT ![p] = SignRet(NoErr)]
  /\ hist' = [hist EXCEPT !.phase = "signed", !.signed = @ + arg[p], !.replaced = FALSE]
  /\ pc' = [pc EXCEPT ![p] = "Sign_unlock"]
  /\ UNCHANGED <<mu, now, arg, keyArg, newTotal, rpc>>

\* a Sign whose error returns leave sm.mu locked
SignUnlockLeaksOnError(p) ==
  IF ret[p].err = NoErr THEN Unlock(p, "Sign_unlock")
  ELSE /\ pc[p] = "Sign_unlock"
       /\ pc' = [pc EXCEPT ![p] = "idle"]
       /\ arg' = [arg EXCEPT ![p] = 0]
       /\ newTotal' = [newTotal EXCEPT ![p] = 0]
       /\ ret' = [ret EXCEPT ![p] = NoRet]
       /\ UNCHANGED <<sm, mu, now, keyArg, buf, hist, rpc>>

SignUnlock(p) == Unlock(p, "Sign_unlock")

(* ------------------------------- Status ------------------------------- *)

\* a goroutine calls Status()
StatusCall(p) ==
  /\ pc[p] = "idle"
  /\ pc' = [pc EXCEPT ![p] = "Status_rlock"]
  /\ UNCHANGED <<sm, mu, now, arg, keyArg, newTotal, buf, ret, hist, rpc>>

\* sm.mu.RLock()
StatusRLock(p) ==
  /\ pc[p] = "Status_rlock"
  /\ CanRLock
  /\ mu' = [mu EXCEPT !.readers = @ \cup {p}]
  /\ pc' = [pc EXCEPT ![p] = "Status_read"]
  /\ UNCHANGED <<sm, now, arg, keyArg, newTotal, buf, ret, hist, rpc>>

\* a snapshot that reports the fields of an expired session as they are
SnapshotLeaksExpired(s, t) ==
  IF s.enclave = NoKey THEN InactiveRet
  ELSE IF isExpired(s, t)
  THEN StatusRet(FALSE, 0, String(s.maxValueLimit), String(s.valueUsed), s.address)
  ELSE StatusRet(TRUE, IF s.expiresAt - t < 0 THEN 0 ELSE s.expiresAt - t,
                 String(s.maxValueLimit), String(s.valueUsed), s.address)

\* the snapshot Status returns for the fields s at time t
Snapshot(s, t) ==
  IF s.enclave = NoKey THEN InactiveRet
  ELSE IF isExpired(s, t) THEN InactiveRet
  ELSE StatusRet(TRUE, IF s.expiresAt - t < 0 THEN 0 ELSE s.expiresAt - t,
                 String(s.maxValueLimit), String(s.valueUsed), s.address)

\* a Status that tears an expired session down, as Sign does
StatusReadTearsDown(p) ==
  /\ pc[p] = "Status_read"
  /\ ret' = [ret EXCEPT ![p] = Snapshot(sm, now)]
  /\ sm' = IF sm.enclave # NoKey /\ isExpired(sm, now) THEN destroyLocked(sm) ELSE sm
  /\ pc' = [pc EXCEPT ![p] = "Status_runlock"]
  /\ UNCHANGED <<mu, now, arg, keyArg, newTotal, buf, hist, rpc>>

\* the body of Status: it reads the fields and writes none
StatusRead(p) ==
  /\ pc[p] = "Status_read"
  /\ ret' = [ret EXCEPT ![p] = Snapshot(sm, now)]
  /\ pc' = [pc EXCEPT ![p] = "Status_runlock"]
  /\ UNCHANGED <<sm, mu, now, arg, keyArg, newTotal, buf, hist, rpc>>

\* the deferred sm.mu.RUnlock(): Status returns ret[p] to its caller. When the
\* caller is a method of the Handler, the method builds its response of it
StatusRUnlock(p) ==
  /\ pc[p] = "Status_runlock"
  /\ mu' = [mu EXCEPT !.readers = @ \ {p}]
  /\ ret' = [ret EXCEPT ![p] = NoRet]
  /\ IF rpc[p].op = "SignOrder"
     THEN /\ pc' = [pc EXCEPT ![p] = "SignOrder_ret"]
          /\ rpc' = [rpc EXCEPT ![p] = SignOrderResponse(@, ret[p])]
     ELSE IF rpc[p].op = "GetSessionStatus"
     THEN /\ pc' = [pc EXCEPT ![p] = "GetSessionStatus_ret"]
          /\ rpc' = [rpc EXCEPT ![p] = GetSessionStatusResponse(@, ret[p])]
     ELSE /\ pc' = [pc EXCEPT ![p] = "idle"]
          /\ UNCHANGED rpc
  /\ UNCHANGED <<sm, now, arg, keyArg, newTotal, buf, hist>>

(* ------------------------------- Destroy ------------------------------ *)

\* a goroutine calls Destroy()
DestroyCall(p) ==
  /\ pc[p] = "idle"
  /\ pc' = [pc EXCEPT ![p] = "Destroy_lock"]
  /\ UNCHANGED <<sm, mu, now, arg, keyArg, newTotal, buf, ret, hist, rpc>>

DestroyLock(p) ==
  /\ Lock(p, "Destroy_lock", "Destroy_enter")
  /\ UNCHANGED <<arg, keyArg>>

DestroyEnter(p) == Enter(p, "Destroy_enter", "Destroy_body")

DestroyBody(p) ==
  /\ pc[p] = "Destroy_body"
  /\ sm' = destroyLocked(sm)
  /\ ret' = [ret EXCEPT ![p] = DestroyRet]
  /\ hist' = [hist EXCEPT !.phase = IF Destroyed THEN "destroyed again" ELSE "destroyed",
                          !.signed = 0, !.replaced = FALSE]
  /\ pc' = [pc EXCEPT ![p] = "Destroy_unlock"]
  /\ UNCHANGED <<mu, now, arg, keyArg, newTotal, buf, rpc>>

DestroyUnlock(p) == Unlock(p, "Destroy_unlock")

(* ------------------------ the Handler's methods ----------------------- *)

\* a SignOrder call that is running on the request req
SignOrderRpc(req) == [NoRpc EXCEPT !.op = "SignOrder", !.req = req]

\* a client calls SignOrder, which runs up to its call of Sign: a request without
\* an order or with a maker_amount that SetString does not accept is answered
\* with InvalidArgument, for every other one SignOrder calls Sign with the value.
\* A negative amount is drawn only while value_used is not below -MaxDebt.
SignOrderParse(p) ==
  /\ pc[p] = "idle"
  /\ \E req \in Requests :
       LET parsed == SetString(req.makerAmount) IN
       \/ /\ ~req.order
          /\ rpc' = [rpc EXCEPT ![p] = ErrorResponse(SignOrderRpc(req), "invalid",
                                          InvalidArgument, "order is required")]
          /\ pc' = [pc EXCEPT ![p] = "SignOrder_ret"]
          /\ UNCHANGED arg
       \/ /\ req.order /\ ~parsed.ok
          /\ rpc' = [rpc EXCEPT ![p] = ErrorResponse(SignOrderRpc(req), "invalid",
                                          InvalidArgument,
                                          "invalid maker_amount: " \o Text(req.makerAmount))]
          /\ pc' = [pc EXCEPT ![p] = "SignOrder_ret"]
          /\ UNCHANGED arg
       \/ /\ req.order /\ parsed.ok
          /\ parsed.value < 0 => sm.valueUsed + parsed.value >= 0 - MaxDebt
          /\ rpc' = [rpc EXCEPT ![p] = SignOrderRpc(req)]
          /\ arg' = [arg EXCEPT ![p] = parsed.value]
          /\ pc' = [pc EXCEPT ![p] = "Sign_lock"]
  /\ UNCHANGED <<sm, mu, now, keyArg, newTotal, buf, ret, hist>>

\* SignOrder returns its response to the client
SignOrderReturn(p) ==
  /\ pc[p] = "SignOrder_ret"
  /\ pc' = [pc EXCEPT ![p] = "idle"]
  /\ rpc' = [rpc EXCEPT ![p] = NoRpc]
  /\ UNCHANGED <<sm, mu, now, arg, keyArg, newTotal, buf, ret, hist>>

\* a client calls GetSessionStatus, which calls Status
GetSessionStatusCall(p) ==
  /\ pc[p] = "idle"
  /\ pc' = [pc EXCEPT ![p] = "Status_rlock"]
  /\ rpc' = [rpc EXCEPT ![p] = [NoRpc EXCEPT !.op = "GetSessionStatus"]]
  /\ UNCHANGED <<sm, mu, now, arg, keyArg, newTotal, buf, ret, hist>>

\* GetSessionStatus returns its response to the client
GetSessionStatusReturn(p) ==
  /\ pc[p] = "GetSessionStatus_ret"
  /\ pc' = [pc EXCEPT ![p] = "idle"]
  /\ rpc' = [rpc EXCEPT ![p] = NoRpc]
  /\ UNCHANGED <<sm, mu, now, arg, keyArg, newTotal, buf, ret, hist>>

(* ------------------------------- clock -------------------------------- *)

\* time passes
Tick ==
  /\ now < MaxTime
  /\ now' = now + 1
  /\ UNCHANGED <<sm, mu, pc, arg, keyArg, newTotal, buf, ret, hist, rpc>>

(* ------------------------------- system ------------------------------- *)

Next ==
  \/ Tick
  \/ \E p \in Procs :
       \/ ActivateCall(p) \/ ActivateLock(p) \/ ActivateEnter(p)
       \/ ActivateBody(p) \/ ActivateUnlock(p)
       \/ SignCall(p) \/ SignLock(p) \/ SignEnter(p) \/ SignCheck(p)
       \/ SignOpen(p) \/ SignCommit(p) \/ SignUnlock(p)
       \/ StatusCall(p) \/ StatusRLock(p) \/ StatusRead(p) \/ StatusRUnlock(p)
       \/ DestroyCall(p) \/ DestroyLock(p) \/ DestroyEnter(p)
       \/ DestroyBody(p) \/ DestroyUnlock(p)

\* goroutines that call the SessionManager directly
Spec == Init /\ [][Next]_vars

\* the steps of goroutine p that wait for nothing but the scheduler, and for
\* readers that leave while no new one can come in
Body(p) ==
  \/ ActivateEnter(p) \/ ActivateBody(p) \/ ActivateUnlock(p)
  \/ SignEnter(p) \/ SignCheck(p) \/ SignOpen(p) \/ SignCommit(p) \/ SignUnlock(p)
  \/ StatusRead(p) \/ StatusRUnlock(p)
  \/ DestroyEnter(p) \/ DestroyBody(p) \/ DestroyUnlock(p)

\* the steps of goroutine p that wait for sm.mu
Acquire(p) ==
  ActivateLock(p) \/ SignLock(p) \/ DestroyLock(p) \/ StatusRLock(p)

\* the scheduler runs every goroutine that can run, and sync.RWMutex hands the lock
\* to a goroutine that keeps waiting for it: an Unlock wakes the readers that wait
\* and sync.Mutex serves a starving waiter first
FairSpec ==
  /\ Spec
  /\ \A p \in Procs : WF_vars(Body(p)) /\ SF_vars(Acquire(p))

\* the service: clients call SignOrder and GetSessionStatus of the Handler, which
\* call Sign and Status; the process that owns the manager calls Activate and Destroy
HandlerNext ==
  \/ Tick
  \/ \E p \in Procs :
       \/ ActivateCall(p) \/ ActivateLock(p) \/ ActivateEnter(p)
       \/ ActivateBody(p) \/ ActivateUnlock(p)
       \/ SignOrderParse(p) \/ SignOrderReturn(p)
       \/ SignLock(p) \/ SignEnter(p) \/ SignCheck(p)
       \/ SignOpen(p) \/ SignCommit(p) \/ SignUnlock(p)
       \/ GetSessionStatusCall(p) \/ GetSessionStatusReturn(p)
       \/ StatusRLock(p) \/ StatusRead(p) \/ StatusRUnlock(p)
       \/ DestroyCall(p) \/ DestroyLock(p) \/ DestroyEnter(p)
       \/ DestroyBody(p) \/ DestroyUnlock(p)

HandlerSpec == Init /\ [][HandlerNext]_vars

TypeOK ==
  /\ sm.enclave \in {NoKey} \cup Keys
  /\ mu.writer \in {NoProc} \cup Procs
  /\ mu.readers \subseteq Procs
  /\ now \in 0..MaxTime

(* ------------------------ pieces of the claims ------------------------ *)

\* goroutine p has passed Sign's limit check and has not yet committed
InSignCritical(p) == pc[p] \in {"Sign_open", "Sign_commit"}

\* this step is goroutine p running Sign's checks
SignCheckStep(p) == pc[p] = "Sign_check" /\ pc'[p] # "Sign_check"

\* this step is the body of goroutine p's Status
StatusReadStep(p) == pc[p] = "Status_read" /\ pc'[p] = "Status_runlock"

\* this step is a statement of goroutine p's Sign
SignStep(p) ==
  /\ pc[p] \in {"Sign_enter", "Sign_check", "Sign_open", "Sign_commit", "Sign_unlock"}
  /\ pc'[p] # pc[p]

\* this step is a statement of goroutine p's Status
StatusStep(p) ==
  /\ pc[p] \in {"Status_rlock", "Status_read", "Status_runlock"}
  /\ pc'[p] # pc[p]

\* this step is the body of goroutine p's Destroy
DestroyBodyStep(p) == pc[p] = "Destroy_body" /\ pc'[p] = "Destroy_unlock"

\* the fields s are those of a manager without a session
TornDown(s) ==
  /\ s.enclave = NoKey /\ s.address = ""
  /\ s.valueUsed = 0 /\ s.maxValueLimit = NilInt

\* the TTL of the session held has elapsed
TTLElapsed == sm.enclave # NoKey /\ now > sm.expiresAt

(* ------------------------------- claims ------------------------------- *)

\* C1: whenever the manager holds a session, value_used <= max_value_limit, and a
\* Sign that is returning a signature leaves value_used <= max_value_limit.
C1_ValueWithinLimit ==
  /\ sm.enclave # NoKey => (sm.maxValueLimit # NilInt /\ sm.valueUsed <= sm.maxValueLimit)
  /\ \A p \in Procs :
       (pc[p] = "Sign_unlock" /\ ret[p].sig) =>
         (sm.enclave # NoKey /\ sm.valueUsed <= sm.maxValueLimit)

\* a Sign is returning a signature after it has used the limit up
C1_Witness ==
  \E p \in Procs :
    /\ pc[p] = "Sign_unlock" /\ ret[p].sig
    /\ arg[p] > 0 /\ sm.valueUsed = sm.maxValueLimit

\* C2: the limit check and the commit of a Sign are atomic. While a Sign is between
\* its check and its commit it holds the lock alone, the session it checked is still
\* there and its total is still value_used + order_value <= max_value_limit; the only
\* step that writes the session meanwhile is that Sign's own commit, which adds its
\* order value to value_used. Every Sign so takes effect at the single instant of its
\* commit, and value_used never passes the limit.
C2_SignAtomic ==
  /\ [](\A p \in Procs :
          InSignCritical(p) =>
            /\ mu.writer = p /\ mu.readers = {}
            /\ \A q \in Procs \ {p} : ~InSignCritical(q)
            /\ sm.enclave # NoKey
            /\ newTotal[p] = sm.valueUsed + arg[p]
            /\ newTotal[p] <= sm.maxValueLimit)
  /\ [][\A p \in Procs :
          (InSignCritical(p) /\ sm' # sm) =>
            /\ pc[p] = "Sign_commit" /\ pc'[p] = "Sign_unlock"
            /\ sm' = [sm EXCEPT !.valueUsed = sm.valueUsed + arg[p]]
            /\ sm'.valueUsed <= sm.maxValueLimit]_vars

\* one Sign is about to commit the last of the budget while a concurrent call to
\* Sign waits for the lock
C2_Witness ==
  \E p, q \in Procs :
    /\ p # q
    /\ pc[p] = "Sign_commit" /\ arg[p] > 0
    /\ pc[q] = "Sign_lock"
    /\ sm.valueUsed + arg[p] = sm.maxValueLimit

\* C3: in a session, value_used is the sum of the order values of the calls to Sign
\* that returned a signature since the session was activated; the calls that returned
\* an error have added nothing.
C3_UsedIsSumOfSigned ==
  /\ sm.enclave # NoKey => sm.valueUsed = hist.signed
  /\ \A p \in Procs :
       (pc[p] = "Sign_unlock" /\ ret[p].err # ErrSessionExpired) =>
         sm.valueUsed = hist.signed

\* a second Sign has returned a signature: value_used is the sum of two order values
C3_Witness ==
  \E p \in Procs :
    /\ pc[p] = "Sign_unlock" /\ ret[p].sig
    /\ arg[p] > 0 /\ sm.valueUsed > arg[p]

\* C4: a Sign that fails with ValueLimitExceeded or because the enclave cannot be
\* opened changes no field of the session and leaves no plaintext buffer; the only
\* step of a Sign that changes value_used of a live session is the one that returns
\* the signature.
C4_FailedSignKeepsState ==
  [][\A p \in Procs :
       /\ (SignStep(p) /\ pc'[p] = "Sign_unlock"
             /\ ret'[p].err \in {ErrValueLimitExceeded, ErrOpen}) =>
            (sm' = sm /\ ~buf'[p] /\ hist' = hist)
       /\ (SignStep(p) /\ sm'.valueUsed # sm.valueUsed /\ sm'.enclave # NoKey) =>
            (pc[p] = "Sign_commit" /\ ret'[p].sig)
       /\ (SignStep(p) /\ pc[p] = "Sign_unlock" /\ ~ret[p].sig) =>
            (sm' = sm)]_vars

\* a Sign is returning the enclave's error on a session that has spent something
C4_Witness ==
  \E p \in Procs :
    /\ pc[p] = "Sign_unlock" /\ ret[p].err = ErrOpen
    /\ arg[p] > 0 /\ sm.valueUsed > 0 /\ sm.enclave # NoKey

\* C5: on a live session (now before expires_at) Sign(v) goes on to sign exactly when
\* value_used + v <= max_value_limit and returns ValueLimitExceeded exactly when
\* value_used + v > max_value_limit; when the key can be opened the call then returns
\* a signature.
C5_LimitBoundary ==
  [][\A p \in Procs :
       /\ (SignCheckStep(p) /\ sm.enclave # NoKey /\ now < sm.expiresAt) =>
            IF sm.valueUsed + arg[p] <= sm.maxValueLimit
            THEN pc'[p] = "Sign_open" /\ ret'[p] = NoRet
            ELSE pc'[p] = "Sign_unlock" /\ ret'[p] = SignRet(ErrValueLimitExceeded)
       /\ (pc[p] = "Sign_open" /\ pc'[p] = "Sign_commit") => buf'[p]
       /\ (pc[p] = "Sign_commit" /\ pc'[p] # pc[p]) =>
            (pc'[p] = "Sign_unlock" /\ ret'[p] = SignRet(NoErr))]_vars

\* after a Sign has brought value_used to exactly the limit, a Sign of one unit is
\* being rejected
C5_Witness ==
  \E p \in Procs :
    /\ pc[p] = "Sign_unlock" /\ ret[p].err = ErrValueLimitExceeded
    /\ arg[p] = 1 /\ hist.signed > 0 /\ sm.valueUsed = sm.maxValueLimit
    /\ now < sm.expiresAt

\* C6: once the TTL of the session held has elapsed, a Sign fails with SessionExpired
\* and clears key, address, limit and counter, and a Status reports the inactive
\* shape, also after that Sign; no Sign goes on to sign and no Status reports
\* active=true when its expiry check finds the TTL elapsed.
C6_ExpiryObserved ==
  [][\A p \in Procs :
       /\ (SignCheckStep(p) /\ TTLElapsed) =>
            /\ pc'[p] = "Sign_unlock" /\ ret'[p] = SignRet(ErrSessionExpired)
            /\ TornDown(sm')
       /\ (StatusReadStep(p) /\ (TTLElapsed \/ sm.enclave = NoKey)) =>
            ret'[p] = InactiveRet
       /\ (SignCheckStep(p) /\ pc'[p] = "Sign_open") => ~TTLElapsed
       /\ (StatusReadStep(p) /\ ret'[p].active) => (sm.enclave # NoKey /\ ~TTLElapsed)]_vars

\* a Sign is returning SessionExpired for a session that had spent something, and
\* has torn it down
C6_Witness ==
  \E p \in Procs :
    /\ pc[p] = "Sign_unlock" /\ ret[p].err = ErrSessionExpired
    /\ hist.phase = "expired" /\ TornDown(sm)

\* C7 as stated: a Status that observes the elapsed TTL tears the session down.
C7_StatusTearsDown ==
  [][\A p \in Procs : (StatusReadStep(p) /\ TTLElapsed) => TornDown(sm')]_vars

\* C7 as amended: Status makes the expiry check of Sign but writes nothing: when it
\* observes the elapsed TTL it reports the inactive shape and leaves the sealed key,
\* the address and the counters in place; the Sign that follows finds the session
\* still there, returns SessionExpired and tears it down.
C7_StatusReadOnly ==
  [][\A p \in Procs :
       /\ StatusStep(p) => (sm' = sm /\ hist' = hist)
       /\ (StatusReadStep(p) /\ TTLElapsed) => ret'[p] = InactiveRet
       /\ (SignCheckStep(p) /\ TTLElapsed) =>
            (ret'[p] = SignRet(ErrSessionExpired) /\ TornDown(sm'))]_vars

\* a Status is reporting the inactive shape for an expired session whose key,
\* address and counters are still in place
C7_Witness ==
  \E p \in Procs :
    /\ pc[p] = "Status_runlock" /\ ret[p] = InactiveRet
    /\ TTLElapsed /\ sm.address = StubAddress
    /\ sm.valueUsed > 0 /\ sm.maxValueLimit >= sm.valueUsed

\* C8: from an Activate until the first Sign that returns a signature, with no Destroy
\* and no further Activate, a Status before expires_at reports active=true,
\* value_used "0" and the limit the session was activated with.
C8_FreshStatus ==
  [][\A p \in Procs :
       (StatusReadStep(p) /\ hist.phase = "activated" /\ now < sm.expiresAt) =>
         /\ ret'[p].active
         /\ ret'[p].used = "0"
         /\ ret'[p].maxLimit = String(hist.limit)
         /\ ret'[p].maxLimit = Digit[hist.limit + 1]]_vars

\* a Status is reporting a fresh session with a limit of 2
C8_Witness ==
  \E p \in Procs :
    /\ pc[p] = "Status_runlock" /\ hist.phase = "activated"
    /\ ret[p].active /\ ret[p].used = "0" /\ ret[p].maxLimit = "2"

\* C9: after a Destroy and until the next Activate, every Sign returns NoActiveSession
\* and changes nothing, for every order value.
C9_SignAfterDestroy ==
  [][\A p \in Procs :
       (SignCheckStep(p) /\ Destroyed) =>
         /\ pc'[p] = "Sign_unlock"
         /\ ret'[p] = SignRet(ErrNoActiveSession)
         /\ sm' = sm]_vars

\* a Sign of a positive value is returning NoActiveSession after a Destroy
C9_Witness ==
  \E p \in Procs :
    /\ pc[p] = "Sign_unlock" /\ ret[p].err = ErrNoActiveSession
    /\ Destroyed /\ arg[p] > 0

\* C10: Destroy leaves the manager without a session from every state: no sealed key,
\* an empty address, value_used zero and no limit, which Status reports as the
\* inactive shape at any time; a Destroy that follows a Destroy changes nothing.
C10_DestroyIdempotent ==
  [][\A p \in Procs :
       DestroyBodyStep(p) =>
         /\ TornDown(sm')
         /\ sm'.expiresAt = sm.expiresAt
         /\ \A t \in 0..MaxTime : Snapshot(sm', t) = InactiveRet
         /\ Destroyed => sm' = sm]_vars

\* a second Destroy in a row has run
C10_Witness ==
  \E p \in Procs :
    /\ pc[p] = "Destroy_unlock" /\ hist.phase = "destroyed again"
    /\ TornDown(sm)

\* this step is the body of goroutine p's Activate
ActivateBodyStep(p) == pc[p] = "Activate_body" /\ pc'[p] = "Activate_unlock"

C16_BufferScoped ==
  \A p \in Procs :
    /\ buf[p] => (pc[p] = "Sign_commit" /\ mu.writer = p /\ sm.enclave # NoKey)
    /\ pc[p] \in {"idle", "Sign_unlock", "Sign_lock", "Sign_enter", "Sign_check",
                  "Sign_open"} => ~buf[p]

\* a Sign holds the opened buffer while another goroutine, without one, waits
C16_Witness ==
  \E p, q \in Procs :
    /\ p # q
    /\ buf[p] /\ pc[p] = "Sign_commit"
    /\ ~buf[q] /\ pc[q] = "Sign_lock"

\* C18 as stated: a session is treated as expired exactly when now >= expires_at.
C18_ExpiredAtInstant ==
  [][\A p \in Procs :
       /\ (SignCheckStep(p) /\ sm.enclave # NoKey) =>
            ((ret'[p].err = ErrSessionExpired) <=> (now >= sm.expiresAt))
       /\ (StatusReadStep(p) /\ sm.enclave # NoKey) =>
            (ret'[p].active <=> (now < sm.expiresAt))]_vars

\* C18 as amended: expires_at is the activation time + TTL and a session is treated
\* as expired exactly when now > expires_at: at the instant now = expires_at Sign
\* still passes its expiry check and Status still reports active=true, with
\* ttl_remaining 0.
C18_ExpiredAfterInstant ==
  [][\A p \in Procs :
       /\ ActivateBodyStep(p) => sm'.expiresAt = now + TTL
       /\ (SignCheckStep(p) /\ sm.enclave # NoKey) =>
            ((ret'[p].err = ErrSessionExpired) <=> (now > sm.expiresAt))
       /\ (StatusReadStep(p) /\ sm.enclave # NoKey) =>
            /\ ret'[p].active <=> (now <= sm.expiresAt)
            /\ ret'[p].active => ret'[p].ttlRemaining = sm.expiresAt - now]_vars

\* a Status has read the session at the instant now = expires_at and reports it
\* active with no time remaining
C18_Witness ==
  \E p \in Procs :
    /\ pc[p] = "Status_runlock"
    /\ ret[p].active /\ ret[p].ttlRemaining = 0
    /\ now = sm.expiresAt

\* C19: Sign checks existence, then expiry, then the limit: without a session it
\* returns NoActiveSession for every value; on a session whose TTL has elapsed it
\* returns SessionExpired and tears the session down, also for a value above the
\* limit; after a Sign has returned SessionExpired every Sign returns
\* NoActiveSession until the next Activate.
C19_CheckOrder ==
  [][\A p \in Procs :
       /\ (SignCheckStep(p) /\ sm.enclave = NoKey) =>
            (ret'[p] = SignRet(ErrNoActiveSession) /\ sm' = sm)
       /\ (SignCheckStep(p) /\ TTLElapsed) =>
            (ret'[p] = SignRet(ErrSessionExpired) /\ TornDown(sm'))
       /\ (SignCheckStep(p) /\ hist.phase = "expired") =>
            (ret'[p] = SignRet(ErrNoActiveSession) /\ sm' = sm)
       /\ (hist.phase = "expired" /\ hist'.phase # "expired") =>
            \E q \in Procs : ActivateBodyStep(q) \/ DestroyBodyStep(q)]_vars

\* a Sign is returning NoActiveSession after an earlier Sign found the session
\* expired
C19_Witness ==
  \E p \in Procs :
    /\ pc[p] = "Sign_unlock" /\ ret[p].err = ErrNoActiveSession
    /\ hist.phase = "expired" /\ arg[p] > 0

\* C17: under fair scheduling every call of Activate, Sign, Status and Destroy
\* returns: whatever a goroutine has called, it gets back to where it can call again.
C17_EveryCallReturns == \A p \in Procs : (pc[p] # "idle") ~> (pc[p] = "idle")

\* a Sign is returning an error while it still holds the lock that another call
\* waits for
C17_Witness ==
  \E p, q \in Procs :
    /\ p # q
    /\ pc[p] = "Sign_unlock" /\ ret[p].err # NoErr /\ mu.writer = p
    /\ pc[q] \in {"Activate_lock", "Sign_lock", "Destroy_lock", "Status_rlock"}

\* C12 as stated: while the manager holds one session, value_used is never negative
\* and no step makes it smaller, whatever requests SignOrder accepts.
C12_UsedMonotone ==
  [][(sm.enclave # NoKey /\ sm'.enclave # NoKey /\ ~\E q \in Procs : ActivateBodyStep(q)) =>
       (sm'.valueUsed >= sm.valueUsed /\ sm'.valueUsed >= 0)]_vars

\* goroutines p and q are returning SignOrder responses of different causes
TwoResponses(p, q) ==
  /\ pc[p] = "SignOrder_ret" /\ pc[q] = "SignOrder_ret"
  /\ rpc[p].cause # rpc[q].cause

\* C13 as stated: SignOrder responses of different causes (invalid input, each error
\* of Sign, success) carry different status codes.
C13_DistinctCodes ==
  \A p, q \in Procs : TwoResponses(p, q) => rpc[p].code # rpc[q].code

\* C13 as amended: SignOrder responses of different causes carry different status
\* codes, except that NoActiveSession and SessionExpired both carry
\* FailedPrecondition and differ in the message only.
C13_DistinctStatuses ==
  \A p, q \in Procs :
    TwoResponses(p, q) =>
      IF {rpc[p].cause, rpc[q].cause} = {ErrNoActiveSession, ErrSessionExpired}
      THEN /\ rpc[p].code = FailedPrecondition /\ rpc[q].code = FailedPrecondition
           /\ rpc[p].msg # rpc[q].msg
      ELSE rpc[p].code # rpc[q].code

\* one SignOrder is returning for NoActiveSession and another for SessionExpired
C13_Witness ==
  \E p, q \in Procs :
    /\ TwoResponses(p, q)
    /\ rpc[p].cause = ErrNoActiveSession /\ rpc[q].cause = ErrSessionExpired

\* the text is a decimal integer: an optional sign and then digits, at least one
WellFormedDecimal(text) ==
  LET body == IF Len(text) > 0 /\ text[1] \in {"+", "-"}
              THEN SubSeq(text, 2, Len(text)) ELSE text
  IN  /\ Len(body) >= 1
      /\ \A i \in 1..Len(body) :
           body[i] \in {"0", "1", "2", "3", "4", "5", "6", "7", "8", "9"}

\* the request has no order, or a maker_amount that is no decimal integer
Malformed(req) == ~req.order \/ ~WellFormedDecimal(req.makerAmount)

\* C14: a SignOrder whose request has no order or a maker_amount that is no decimal
\* integer never gets to Sign: it returns InvalidArgument without a signature, in a
\* step that takes no lock and leaves the session as it is.
C14_InvalidInputRejected ==
  /\ [](\A p \in Procs :
          (rpc[p].op = "SignOrder" /\ Malformed(rpc[p].req)) =>
            /\ pc[p] = "SignOrder_ret"
            /\ rpc[p].code = InvalidArgument /\ ~rpc[p].signature)
  /\ [][\A p \in Procs :
          (pc[p] = "idle" /\ pc'[p] = "SignOrder_ret") =>
            /\ Malformed(rpc'[p].req)
            /\ sm' = sm /\ mu' = mu /\ hist' = hist /\ ret' = ret]_vars

\* a SignOrder is returning InvalidArgument for a text that is no number while the
\* manager holds an expired session that has spent something
C14_Witness ==
  \E p \in Procs :
    /\ pc[p] = "SignOrder_ret" /\ rpc[p].code = InvalidArgument
    /\ rpc[p].req.order /\ Len(rpc[p].req.makerAmount) = 2
    /\ TTLElapsed /\ sm.valueUsed > 0

\* C15: Status returns no error, and without a valid session (never activated,
\* destroyed, torn down, or TTL elapsed) it returns the inactive shape;
\* GetSessionStatus answers OK, and with active=false it reports no address, no
\* time remaining and "0" for both counters.
C15_InactiveShape ==
  /\ [](\A p \in Procs :
          /\ pc[p] = "Status_runlock" =>
               (ret[p].err = NoErr /\ (~ret[p].active => ret[p] = InactiveRet))
          /\ pc[p] = "GetSessionStatus_ret" =>
               /\ rpc[p].code = OK /\ rpc[p].cause = "none"
               /\ ~rpc[p].st.active =>
                    /\ rpc[p].st.address = "" /\ rpc[p].st.ttlRemaining = 0
                    /\ rpc[p].st.maxLimit = "0" /\ rpc[p].st.used = "0")
  /\ [][\A p \in Procs :
          (StatusReadStep(p) /\ (sm.enclave = NoKey \/ TTLElapsed)) =>
            ret'[p] = InactiveRet]_vars

\* GetSessionStatus is returning the inactive shape while the manager still holds
\* the fields of an expired session
C15_Witness ==
  \E p \in Procs :
    /\ pc[p] = "GetSessionStatus_ret" /\ ~rpc[p].st.active
    /\ TTLElapsed /\ sm.address = StubAddress /\ sm.valueUsed > 0

\* C20 as stated: a SignOrder response with a signature carries the address of the
\* session whose key signed, never an empty one.
C20_SignerAddress ==
  \A p \in Procs :
    (pc[p] = "SignOrder_ret" /\ rpc[p].signature) =>
      (rpc[p].st.address # "" /\ rpc[p].st.address = rpc[p].signer)

====
